---- MODULE Spec2Model ----
(***************************************************************************)
(* Hybrid elimination of gtsam/hybrid/GaussianHybridFactorGraph.cpp:       *)
(* the Sum combinator (operator+= and sum), toDecisionTreeFactor and       *)
(* EliminateHybrid, as a state machine over one call on one graph.         *)
(***************************************************************************)
EXTENDS Integers, Sequences, FiniteSets, TLC

VARIABLES
  factors,            \* the GaussianHybridFactorGraph the call is made on
  ordering,           \* the Ordering argument of EliminateHybrid (a key set)
  op,                 \* which entry point is running
  pc,                 \* position inside the running entry point
  i,                  \* index of the next element of the loop being run
  sum,                \* the local Sum (a decision tree of factor graphs)
  eliminationResults, \* leaf -> EliminationPair, filled leaf by leaf
  keysOfEliminated,   \* captured by reference by the eliminate lambda
  keysOfSeparator,    \* captured by reference by the eliminate lambda
  ret,                \* what the call returned
  err,                \* the exception that left the call, "" if none
  oracleCalls,        \* history: graphs handed to EliminatePreferCholesky
  writes              \* history: <<leaf, variable>> for each captured write

vars == <<factors, ordering, op, pc, i, sum, eliminationResults,
          keysOfEliminated, keysOfSeparator, ret, err, oracleCalls, writes>>

(***************************************************************************)
(* Bounds of the model.                                                    *)
(***************************************************************************)
MaxDC == 2        \* most elements of dcGraph()
MaxPlain == 1     \* most elements of gaussianGraph()

(***************************************************************************)
(* Keys and values.                                                        *)
(***************************************************************************)
DKeys == {"m1", "m2"}          \* discrete keys, each binary
DVals == {0, 1}
Vals == {0, 1}                 \* the values a continuous variable ranges over

Assignments(dkeys) == [dkeys -> DVals]

Restrict(a, dkeys) == [k \in dkeys |-> a[k]]

\* Position of a leaf in the traversal of a tree: m1 is the outer label.
Rank(a) ==
  (IF "m1" \in DOMAIN a THEN Cardinality(DVals) * a["m1"] ELSE 0)
  + (IF "m2" \in DOMAIN a THEN a["m2"] ELSE 0)

MinOf(S) == CHOOSE m \in S : \A n \in S : m <= n

(***************************************************************************)
(* Real numbers that the code computes: n itself, or exp(n).               *)
(***************************************************************************)
Real(n) == [fn |-> "id", arg |-> n]

Exp(n) == IF n = 0 THEN Real(1) ELSE [fn |-> "exp", arg |-> n]

(***************************************************************************)
(* Gaussian factors.  A null shared_ptr is Null.                           *)
(***************************************************************************)
Null == [type |-> "null", keys |-> {}]

Jacobian(keys, b) == [type |-> "jacobian", keys |-> keys, b |-> b]

RECURSIVE SumVals(_, _)
SumVals(keys, x) ==
  IF keys = {} THEN 0
  ELSE LET k == CHOOSE k \in keys : TRUE
       IN  x[k] + SumVals(keys \ {k}, x)

\* JacobianFactor::error: the squared residual of the factor at x.
JacobianError(factor, x) ==
  (SumVals(factor.keys, x) - factor.b) * (SumVals(factor.keys, x) - factor.b)

\* GaussianFactorGraph::error: the sum of the non-null factors' errors at x.
RECURSIVE GraphError(_, _)
GraphError(graph, x) ==
  IF graph = <<>> THEN 0
  ELSE (IF Head(graph).type = "jacobian" THEN JacobianError(Head(graph), x)
        ELSE 0)
       + GraphError(Tail(graph), x)

GraphKeys(graph) == UNION {graph[n].keys : n \in 1..Len(graph)}

\* GaussianFactor::error at x: a residual factor left by an elimination
\* carries the energy of the eliminated graph minimised over the frontals.
error(factor, x) ==
  IF factor.type = "jacobian" THEN JacobianError(factor, x)
  ELSE MinOf({GraphError(factor.graph, x @@ w) :
                w \in [factor.frontals -> Vals]})

\* GaussianFactorGraph::optimize: the least-squares minimiser.
optimize(graph) ==
  CHOOSE x \in [GraphKeys(graph) -> Vals] :
    \A y \in [GraphKeys(graph) -> Vals] :
      GraphError(graph, x) <= GraphError(graph, y)

\* GaussianFactorGraph::probPrime as section 4.3 describes the score.
probPrime(graph, values) == Real(GraphError(graph, values))

HasNull(gfg) == \E n \in 1..Len(gfg) : gfg[n] = Null

(***************************************************************************)
(* Decision trees: a key set and one leaf value per assignment.            *)
(***************************************************************************)
EmptyTree == [empty |-> TRUE, dkeys |-> {}, leaves |-> <<>>]

\* A tree over dkeys: leaves gives the value at each assignment of dkeys.
Tree(dkeys, leaves) == [empty |-> FALSE, dkeys |-> dkeys, leaves |-> leaves]

\* DecisionTree(y): one leaf, no keys.
Leaf(y) == Tree({}, [a \in Assignments({}) |-> y])

Leaves(t) == DOMAIN t.leaves

(***************************************************************************)
(* The Sum combinator.                                                     *)
(***************************************************************************)
IsMixture(dcFactor) == dcFactor.kind = "mixture"

\* operator+=(Sum&, const DCGaussianMixtureFactor&), as section 4.1 has it.
SumPlusMixtureFactor(s, mixtureFactor) ==
  LET wrapped == Tree(mixtureFactor.dkeys,
                      [a \in Assignments(mixtureFactor.dkeys) |->
                         IF mixtureFactor.factors[a] = Null
                         THEN <<>>
                         ELSE <<mixtureFactor.factors[a]>>])
  IN  IF s.empty THEN wrapped
      ELSE Tree(s.dkeys \cup wrapped.dkeys,
                [a \in Assignments(s.dkeys \cup wrapped.dkeys) |->
                   s.leaves[Restrict(a, s.dkeys)]
                   \o wrapped.leaves[Restrict(a, wrapped.dkeys)]])

\* A slip that adds the factor in front of each leaf's graph.
SumPlusGaussianFactorPrepend(s, factor) ==
  IF s.empty THEN Leaf(<<factor>>)
  ELSE Tree(s.dkeys, [a \in Leaves(s) |-> <<factor>> \o s.leaves[a]])

\* operator+=(Sum&, const GaussianFactor::shared_ptr&).
SumPlusGaussianFactor(s, factor) ==
  IF s.empty THEN Leaf(<<factor>>)
  ELSE Tree(s.dkeys, [a \in Leaves(s) |-> Append(s.leaves[a], factor)])

\* GaussianHybridFactorGraph::discreteKeys as section 4.2 step 6 has it.
discreteKeys(g) ==
  UNION {g.dcGraph[n].dkeys : n \in {m \in 1..Len(g.dcGraph) :
                                       IsMixture(g.dcGraph[m])}}

RECURSIVE FoldMixtures(_, _)
\* The first loop of sum(), run to its end on a dcGraph of mixture factors.
FoldMixtures(s, dcGraph) ==
  IF dcGraph = <<>> THEN s
  ELSE FoldMixtures(SumPlusMixtureFactor(s, Head(dcGraph)), Tail(dcGraph))

RECURSIVE FoldGaussians(_, _)
\* The second loop of sum(), run to its end.
FoldGaussians(s, gaussianGraph) ==
  IF gaussianGraph = <<>> THEN s
  ELSE FoldGaussians(SumPlusGaussianFactor(s, Head(gaussianGraph)),
                     Tail(gaussianGraph))

\* GaussianHybridFactorGraph::sum on a graph whose dcGraph holds mixtures.
GraphSum(g) ==
  FoldGaussians(FoldMixtures(EmptyTree, g.dcGraph), g.gaussianGraph)

(***************************************************************************)
(* The graphs and orderings a call is made with.                           *)
(***************************************************************************)
\* The factors a mixture factor over discrete key k chooses among.
LeafPool(k) ==
  IF k = "m1" THEN {Null, Jacobian({"x1"}, 0), Jacobian({"x1", "x2"}, 3)}
  ELSE {Null, Jacobian({"x1"}, 0)}

PlainPool == {Null, Jacobian({"x2"}, 3)}

MixtureFactors ==
  UNION {{[kind |-> "mixture", dkeys |-> {k}, factors |-> f] :
            f \in [Assignments({k}) -> LeafPool(k)]} : k \in DKeys}

\* A DCFactor of dcGraph() that is no DCGaussianMixtureFactor.
OtherDCFactor == [kind |-> "other", dkeys |-> {"m1"}, factors |-> <<>>]

DCFactors == MixtureFactors \cup {OtherDCFactor}

DiscreteGraphs == {<<>>, <<[type |-> "discrete", dkeys |-> {"m2"}]>>}

Orderings == {{"x1"}, {"x1", "x2"}, {"m1"}}

SeqsUpTo(S, n) == UNION {[1..m -> S] : m \in 0..n}

Graphs ==
  [discreteGraph : DiscreteGraphs,
   dcGraph : SeqsUpTo(DCFactors, MaxDC),
   gaussianGraph : SeqsUpTo(PlainPool, MaxPlain)]

(***************************************************************************)
(* The oracles.                                                            *)
(***************************************************************************)
\* EliminateForMPE(dfg, ordering): the discrete oracle's pair.
EliminateForMPE(dfg, ord) ==
  [first |-> [type |-> "DiscreteConditional", graph |-> dfg, frontals |-> ord],
   second |-> [type |-> "DiscreteFactor", graph |-> dfg, frontals |-> ord]]

\* The continuous oracle cannot factor a system that leaves a variable of
\* the ordering unconstrained.
Singular(graph, ord) == ~(ord \subseteq GraphKeys(graph))

\* EliminatePreferCholesky(graph, ordering): conditional on the frontals
\* given the separator, and the residual factor on the separator.
EliminatePreferCholesky(graph, ord) ==
  [first |-> [type |-> "conditional", keys |-> GraphKeys(graph),
              nrFrontals |-> Cardinality(ord), graph |-> graph],
   second |-> [type |-> "residual", keys |-> GraphKeys(graph) \ ord,
               graph |-> graph, frontals |-> ord]]

NullPair == [first |-> Null, second |-> Null]

Pending == [done |-> FALSE, first |-> Null, second |-> Null]

NoResult == [first |-> Null, second |-> Null]

(***************************************************************************)
(* Initial states: a graph, no call made yet.                              *)
(***************************************************************************)
Init ==
  /\ factors \in Graphs
  /\ ordering = {}
  /\ op = ""
  /\ pc = "idle"
  /\ i = 1
  /\ sum = EmptyTree
  /\ eliminationResults = <<>>
  /\ keysOfEliminated = {}
  /\ keysOfSeparator = {}
  /\ ret = NoResult
  /\ err = ""
  /\ oracleCalls = {}
  /\ writes = {}

(***************************************************************************)
(* Entry points.                                                           *)
(***************************************************************************)
\* EliminateHybrid(factors, ordering) is called: Sum sum = factors.sum().
CallEliminateHybrid ==
  /\ pc = "idle"
  /\ \E ord \in Orderings : ordering' = ord
  /\ op' = "EliminateHybrid"
  /\ pc' = "sum_dc"
  /\ UNCHANGED <<factors, i, sum, eliminationResults, keysOfEliminated,
                 keysOfSeparator, ret, err, oracleCalls, writes>>

\* toDecisionTreeFactor() is called: Sum sum = this->sum().
CallToDecisionTreeFactor ==
  /\ pc = "idle"
  /\ op' = "toDecisionTreeFactor"
  /\ pc' = "sum_dc"
  /\ UNCHANGED <<factors, ordering, i, sum, eliminationResults,
                 keysOfEliminated, keysOfSeparator, ret, err, oracleCalls,
                 writes>>

(***************************************************************************)
(* GaussianHybridFactorGraph::sum, one loop iteration per step.            *)
(***************************************************************************)
\* A slip that drops a mixture factor once the sum is initialised.
SumMixtureKeepFirst ==
  /\ pc = "sum_dc"
  /\ i <= Len(factors.dcGraph)
  /\ IsMixture(factors.dcGraph[i])
  /\ sum' = IF sum.empty THEN SumPlusMixtureFactor(sum, factors.dcGraph[i])
            ELSE sum
  /\ i' = i + 1
  /\ UNCHANGED <<factors, ordering, op, pc, eliminationResults,
                 keysOfEliminated, keysOfSeparator, ret, err, oracleCalls,
                 writes>>

\* The dynamic cast succeeds: sum += *mixtureFactor.
SumMixture ==
  /\ pc = "sum_dc"
  /\ i <= Len(factors.dcGraph)
  /\ IsMixture(factors.dcGraph[i])
  /\ sum' = SumPlusMixtureFactor(sum, factors.dcGraph[i])
  /\ i' = i + 1
  /\ UNCHANGED <<factors, ordering, op, pc, eliminationResults,
                 keysOfEliminated, keysOfSeparator, ret, err, oracleCalls,
                 writes>>

\* A slip that skips the element the cast fails on.
SumSkipNonMixture ==
  /\ pc = "sum_dc"
  /\ i <= Len(factors.dcGraph)
  /\ ~IsMixture(factors.dcGraph[i])
  /\ i' = i + 1
  /\ UNCHANGED <<factors, ordering, op, pc, sum, eliminationResults,
                 keysOfEliminated, keysOfSeparator, ret, err, oracleCalls,
                 writes>>

\* The dynamic cast fails: throw runtime_error, which leaves the call.
SumThrow ==
  /\ pc = "sum_dc"
  /\ i <= Len(factors.dcGraph)
  /\ ~IsMixture(factors.dcGraph[i])
  /\ pc' = "thrown"
  /\ err' = "TypeMismatch"
  /\ UNCHANGED <<factors, ordering, op, i, sum, eliminationResults,
                 keysOfEliminated, keysOfSeparator, ret, oracleCalls, writes>>

\* The first loop is over: go on to the loop over gaussianGraph().
SumDCDone ==
  /\ pc = "sum_dc"
  /\ i > Len(factors.dcGraph)
  /\ pc' = "sum_gaussian"
  /\ i' = 1
  /\ UNCHANGED <<factors, ordering, op, sum, eliminationResults,
                 keysOfEliminated, keysOfSeparator, ret, err, oracleCalls,
                 writes>>

\* sum += gaussianFactor.
SumGaussian ==
  /\ pc = "sum_gaussian"
  /\ i <= Len(factors.gaussianGraph)
  /\ sum' = SumPlusGaussianFactor(sum, factors.gaussianGraph[i])
  /\ i' = i + 1
  /\ UNCHANGED <<factors, ordering, op, pc, eliminationResults,
                 keysOfEliminated, keysOfSeparator, ret, err, oracleCalls,
                 writes>>

\* return sum, to the entry point that called.
SumReturn ==
  /\ pc = "sum_gaussian"
  /\ i > Len(factors.gaussianGraph)
  /\ pc' = IF op = "EliminateHybrid" THEN "summed" ELSE "dtf"
  /\ i' = 1
  /\ UNCHANGED <<factors, ordering, op, sum, eliminationResults,
                 keysOfEliminated, keysOfSeparator, ret, err, oracleCalls,
                 writes>>

(***************************************************************************)
(* toDecisionTreeFactor.                                                   *)
(***************************************************************************)
\* A slip that scores the graph at the zero point, not at its minimiser.
gfgErrorAtZero(graph) ==
  probPrime(graph, [k \in GraphKeys(graph) |-> 0])

\* The gfgError lambda: optimize, then probPrime at the optimum.
gfgError(graph) == probPrime(graph, optimize(graph))

\* DecisionTree<Key, double> gfgdt(sum, gfgError), wrapped with the graph's
\* discrete keys.  A sum without a root cannot be mapped, and optimize()
\* of a graph that holds a null factor dereferences it: no factor comes back.
ToDecisionTreeFactor ==
  /\ pc = "dtf"
  /\ IF sum.empty
     THEN /\ pc' = "thrown" /\ err' = "EmptySum" /\ ret' = ret
     ELSE IF \E a \in Leaves(sum) : HasNull(sum.leaves[a])
     THEN /\ pc' = "thrown" /\ err' = "NullFactor" /\ ret' = ret
     ELSE /\ pc' = "done"
          /\ err' = err
          /\ ret' = [first |-> Null,
                     second |-> [type |-> "DecisionTreeFactor",
                                 discreteKeys |-> discreteKeys(factors),
                                 potentials |->
                                   Tree(sum.dkeys,
                                        [a \in Leaves(sum) |->
                                           gfgError(sum.leaves[a])])]]
  /\ UNCHANGED <<factors, ordering, op, i, sum, eliminationResults,
                 keysOfEliminated, keysOfSeparator, oracleCalls, writes>>

(***************************************************************************)
(* EliminateHybrid.                                                        *)
(***************************************************************************)
\* A slip that takes the fallback whenever no mixture factor is left.
FallbackIfNoMixture(g, s) == g.dcGraph = <<>>

\* if (sum.empty()): no continuous factor was folded into the sum.
IsFallback(g, s) == s.empty

\* The discrete branch: EliminateForMPE on the discrete graph, returned as is.
Fallback ==
  /\ pc = "summed"
  /\ IsFallback(factors, sum)
  /\ ret' = EliminateForMPE(factors.discreteGraph, ordering)
  /\ pc' = "done"
  /\ UNCHANGED <<factors, ordering, op, i, sum, eliminationResults,
                 keysOfEliminated, keysOfSeparator, err, oracleCalls, writes>>

\* A slip that looks at the first factor of the graph only.
zeroOutFirstOnly(gfg) ==
  IF gfg # <<>> /\ gfg[1] = Null THEN <<>> ELSE gfg

\* The zeroOut lambda.
zeroOut(gfg) == IF HasNull(gfg) THEN <<>> ELSE gfg

\* sum = Sum(sum, zeroOut); every leaf is still to be eliminated.
ZeroOut ==
  /\ pc = "summed"
  /\ ~IsFallback(factors, sum)
  /\ sum' = Tree(sum.dkeys, [a \in Leaves(sum) |-> zeroOut(sum.leaves[a])])
  /\ eliminationResults' =
       [a \in Assignments(sum.dkeys) |-> Pending]
  /\ pc' = "eliminate"
  /\ UNCHANGED <<factors, ordering, op, i, keysOfEliminated,
                 keysOfSeparator, ret, err, oracleCalls, writes>>

\* A slip that treats a graph of one factor like the empty graph.
eliminateSkipSingle(graph, ord) ==
  IF Len(graph) <= 1
  THEN [called |-> FALSE, threw |-> FALSE, pair |-> NullPair]
  ELSE [called |-> TRUE, threw |-> Singular(graph, ord),
        pair |-> EliminatePreferCholesky(graph, ord)]

\* The eliminate lambda without its captured writes: whether the oracle is
\* called, whether it throws, and the pair the lambda returns.
eliminate(graph, ord) ==
  IF graph = <<>>
  THEN [called |-> FALSE, threw |-> FALSE, pair |-> NullPair]
  ELSE [called |-> TRUE, threw |-> Singular(graph, ord),
        pair |-> EliminatePreferCholesky(graph, ord)]

\* The eliminate lambda on leaf a, with the writes to the captured
\* keysOfEliminated and keysOfSeparator.
EliminateLeaf(a) ==
  LET r == eliminate(sum.leaves[a], ordering)
  IN  /\ oracleCalls' = IF r.called THEN oracleCalls \cup {sum.leaves[a]}
                        ELSE oracleCalls
      /\ IF r.threw
         THEN /\ pc' = "thrown"
              /\ err' = "SingularSystem"
              /\ UNCHANGED <<eliminationResults, keysOfEliminated,
                             keysOfSeparator, writes>>
         ELSE /\ eliminationResults' =
                   [eliminationResults EXCEPT
                      ![a] = [done |-> TRUE, first |-> r.pair.first,
                              second |-> r.pair.second]]
              /\ keysOfEliminated' =
                   IF r.called /\ keysOfEliminated = {}
                   THEN r.pair.first.keys ELSE keysOfEliminated
              /\ keysOfSeparator' =
                   IF r.called /\ keysOfSeparator = {}
                   THEN r.pair.second.keys ELSE keysOfSeparator
              /\ writes' = writes
                   \cup (IF r.called /\ keysOfEliminated = {}
                         THEN {<<a, "keysOfEliminated">>} ELSE {})
                   \cup (IF r.called /\ keysOfSeparator = {}
                         THEN {<<a, "keysOfSeparator">>} ELSE {})
              /\ UNCHANGED <<pc, err>>
      /\ UNCHANGED <<factors, ordering, op, i, sum, ret>>

PendingLeaves == {a \in DOMAIN eliminationResults :
                    ~eliminationResults[a].done}

\* DecisionTree<Key, EliminationPair> eliminationResults(sum, eliminate):
\* the next leaf in the order of the tree.
EliminateNextLeaf ==
  /\ pc = "eliminate"
  /\ \E a \in PendingLeaves :
       /\ \A b \in PendingLeaves : Rank(a) <= Rank(b)
       /\ EliminateLeaf(a)

\* The same map with its leaves taken in any order.
EliminateAnyLeaf ==
  /\ pc = "eliminate"
  /\ \E a \in PendingLeaves : EliminateLeaf(a)

EmptyValues == [k \in {} |-> 0]

\* The factorError lambda with 1.0 for a null factor.
factorErrorNullOne(factor) ==
  IF factor = Null THEN Real(1) ELSE Exp(0 - error(factor, EmptyValues))

\* The factorError lambda.
factorError(factor) ==
  IF factor = Null THEN Real(0) ELSE Exp(0 - error(factor, EmptyValues))

\* A slip that indexes the conditional by every discrete key there is.
HybridConditionalAllKeys(g, ord, keys, conditionals) ==
  [type |-> "GaussianMixture", nrFrontals |-> Cardinality(ord),
   keys |-> keys, discreteKeys |-> DKeys, conditionals |-> conditionals]

\* make_shared<GaussianMixture>(nrFrontals, keysOfEliminated, discreteKeys,
\* conditionals).
HybridConditional(g, ord, keys, conditionals) ==
  [type |-> "GaussianMixture", nrFrontals |-> Cardinality(ord),
   keys |-> keys, discreteKeys |-> discreteKeys(g),
   conditionals |-> conditionals]

\* A slip that always wraps the residuals as a mixture factor.
HybridResidualAlwaysMixture(g, keys, separatorFactors) ==
  [type |-> "DCGaussianMixtureFactor", keys |-> keys,
   discreteKeys |-> discreteKeys(g), factors |-> separatorFactors]

\* The residual: a DecisionTreeFactor of factorError when no continuous
\* parent is left, a DCGaussianMixtureFactor on the separator otherwise.
HybridResidual(g, keys, separatorFactors) ==
  IF keys = {}
  THEN [type |-> "DecisionTreeFactor", discreteKeys |-> discreteKeys(g),
        potentials |->
          Tree(separatorFactors.dkeys,
               [a \in Leaves(separatorFactors) |->
                  factorError(separatorFactors.leaves[a])])]
  ELSE [type |-> "DCGaussianMixtureFactor", keys |-> keys,
        discreteKeys |-> discreteKeys(g), factors |-> separatorFactors]

\* unzip(eliminationResults): the tree of conditionals, the tree of factors.
unzip(t, results) ==
  [first |-> Tree(t.dkeys, [a \in Leaves(t) |-> results[a].first]),
   second |-> Tree(t.dkeys, [a \in Leaves(t) |-> results[a].second])]

\* STEP 3: every leaf is eliminated; build and return the pair.
CreateResult ==
  /\ pc = "eliminate"
  /\ PendingLeaves = {}
  /\ LET pair == unzip(sum, eliminationResults)
     IN  ret' = [first |-> HybridConditional(factors, ordering,
                                             keysOfEliminated, pair.first),
                 second |-> HybridResidual(factors, keysOfSeparator,
                                           pair.second)]
  /\ pc' = "done"
  /\ UNCHANGED <<factors, ordering, op, i, sum, eliminationResults,
                 keysOfEliminated, keysOfSeparator, err, oracleCalls, writes>>

(***************************************************************************)
(* Specifications.                                                         *)
(***************************************************************************)
Next ==
  \/ CallEliminateHybrid
  \/ CallToDecisionTreeFactor
  \/ SumMixture
  \/ SumThrow
  \/ SumDCDone
  \/ SumGaussian
  \/ SumReturn
  \/ ToDecisionTreeFactor
  \/ Fallback
  \/ ZeroOut
  \/ EliminateNextLeaf
  \/ CreateResult

Spec == Init /\ [][Next]_vars

\* EliminateHybrid with the per-leaf eliminations run in any order.
NextAnyOrder ==
  \/ CallEliminateHybrid
  \/ SumMixture
  \/ SumThrow
  \/ SumDCDone
  \/ SumGaussian
  \/ SumReturn
  \/ Fallback
  \/ ZeroOut
  \/ EliminateAnyLeaf
  \/ CreateResult

\* The calls whose leaves are run in any order: no discrete factor, at most
\* one plain factor.
InitAnyOrder ==
  /\ Init
  /\ factors.discreteGraph = <<>>
  /\ Len(factors.gaussianGraph) <= 1

SpecAnyOrder == InitAnyOrder /\ [][NextAnyOrder]_vars

(***************************************************************************)
(* Properties.                                                             *)
(***************************************************************************)
AllMixtures(g) == \A n \in 1..Len(g.dcGraph) : IsMixture(g.dcGraph[n])

NoContinuousFactor(g) == g.dcGraph = <<>> /\ g.gaussianGraph = <<>>

\* EliminateHybrid returned from its continuous branch.
Eliminated == op = "EliminateHybrid" /\ pc = "done" /\ ~sum.empty

\* The leaves that are handed to the continuous oracle.
Feasible == {a \in Leaves(sum) : sum.leaves[a] # <<>>}

\* The separator of each feasible leaf: its keys outside the ordering.
Separators == {GraphKeys(sum.leaves[a]) \ ordering : a \in Feasible}

\* The energy of a graph minimised over the variables of the ordering.
MinEnergy(graph, ord) ==
  MinOf({GraphError(graph, w) : w \in [ord -> Vals]})

LeafCount(t) == Cardinality(DOMAIN t.leaves)

Perms(n) ==
  {p \in [1..n -> 1..n] : \A j, k \in 1..n : p[j] = p[k] => j = k}

\* C1 as the specification states it: with an empty separator the residual
\* is a discrete potential whose leaf is 1.0 where the residual factor is
\* null and exp(-error at the zero point) where it is not.
C1_NullPotentialOne ==
  (Eliminated /\ keysOfSeparator = {}) =>
    /\ ret.second.type = "DecisionTreeFactor"
    /\ \A a \in Leaves(sum) :
         ret.second.potentials.leaves[a] =
           IF eliminationResults[a].second = Null THEN Real(1)
           ELSE Exp(0 - MinEnergy(sum.leaves[a], ordering))

\* C1 amended: with an empty separator the residual is a discrete potential
\* whose leaf is 0.0 where the residual factor is null and exp(-error at the
\* zero point) where it is not.
C1_NullPotentialZero ==
  (Eliminated /\ keysOfSeparator = {}) =>
    /\ ret.second.type = "DecisionTreeFactor"
    /\ \A a \in Leaves(sum) :
         ret.second.potentials.leaves[a] =
           IF eliminationResults[a].second = Null THEN Real(0)
           ELSE Exp(0 - MinEnergy(sum.leaves[a], ordering))

\* An empty separator, one infeasible hypothesis and one feasible hypothesis
\* whose residual energy is not zero.
C1_Witness ==
  /\ Eliminated
  /\ keysOfSeparator = {}
  /\ \E a, b \in Leaves(sum) :
       /\ eliminationResults[a].second = Null
       /\ ret.second.potentials.leaves[a] = Real(0)
       /\ eliminationResults[b].second # Null
       /\ ret.second.potentials.leaves[b].fn = "exp"

Touches(g, ord) ==
  \/ \E n \in 1..Len(g.gaussianGraph) : g.gaussianGraph[n].keys \cap ord # {}
  \/ \E n \in 1..Len(g.dcGraph) :
       /\ IsMixture(g.dcGraph[n])
       /\ \E a \in DOMAIN g.dcGraph[n].factors :
            g.dcGraph[n].factors[a].keys \cap ord # {}

\* C4 as the specification states it: when no continuous factor touches a
\* variable of the ordering, the call returns the discrete oracle's pair and
\* never calls the continuous oracle, also when continuous factors over
\* other variables are left in the graph.
C4_FallbackWheneverUntouched ==
  (op = "EliminateHybrid" /\ AllMixtures(factors)
     /\ ~Touches(factors, ordering)) =>
    /\ oracleCalls = {}
    /\ pc # "thrown"
    /\ pc = "done" =>
         ret = EliminateForMPE(factors.discreteGraph, ordering)

\* C4 amended: when the graph holds no continuous factor at all the call
\* returns the discrete oracle's pair on the discrete graph and the ordering
\* and never calls the continuous oracle; when it holds any continuous
\* factor the call does not return the discrete oracle's pair.
C4_FallbackIffNoContinuous ==
  /\ (op = "EliminateHybrid" /\ NoContinuousFactor(factors)) =>
       /\ oracleCalls = {}
       /\ pc # "thrown"
       /\ pc = "done" =>
            ret = EliminateForMPE(factors.discreteGraph, ordering)
  /\ (op = "EliminateHybrid" /\ pc = "done"
        /\ ~NoContinuousFactor(factors)) =>
       /\ ret.first.type = "GaussianMixture"
       /\ ret # EliminateForMPE(factors.discreteGraph, ordering)

\* The fallback has returned the discrete oracle's pair for a graph with a
\* discrete factor.
C4_Witness ==
  /\ op = "EliminateHybrid"
  /\ pc = "done"
  /\ NoContinuousFactor(factors)
  /\ factors.discreteGraph # <<>>
  /\ ret = EliminateForMPE(factors.discreteGraph, ordering)

\* C5: the continuous oracle is never called on an empty graph or on a
\* graph that holds a null factor: a leaf whose graph holds a null factor
\* is made empty first, and an empty leaf gives the pair (null, null).
C5_OracleNeverSeesNull ==
  /\ \A graph \in oracleCalls : graph # <<>> /\ ~HasNull(graph)
  /\ (op = "EliminateHybrid" /\ pc \in {"eliminate", "done"}
        /\ ~sum.empty) =>
       \A a \in Leaves(sum) :
         /\ HasNull(GraphSum(factors).leaves[a]) => sum.leaves[a] = <<>>
         /\ ~HasNull(GraphSum(factors).leaves[a]) =>
              sum.leaves[a] = GraphSum(factors).leaves[a]
         /\ (eliminationResults[a].done /\ sum.leaves[a] = <<>>) =>
              /\ eliminationResults[a].first = Null
              /\ eliminationResults[a].second = Null
              /\ sum.leaves[a] \notin oracleCalls

\* A leaf with a null factor among valid factors was emptied and gave the
\* pair (null, null).
C5_Witness ==
  /\ op = "EliminateHybrid"
  /\ pc = "eliminate"
  /\ \E a \in Leaves(sum) :
       /\ HasNull(GraphSum(factors).leaves[a])
       /\ \E n \in 1..Len(GraphSum(factors).leaves[a]) :
            GraphSum(factors).leaves[a][n] # Null
       /\ eliminationResults[a].done
       /\ eliminationResults[a].first = Null

\* C6: after any sequence of mixture folds from the empty sum, the discrete
\* keys of the sum are the union of the discrete keys of the folded mixture
\* factors, and they are the same for every order of the folds.
C6_SumKeysAreUnion ==
  /\ (pc = "sum_dc" /\ AllMixtures(factors)) =>
       sum.dkeys = UNION {factors.dcGraph[n].dkeys : n \in 1..(i - 1)}
  /\ (pc = "sum_gaussian" /\ i = 1) =>
       /\ sum.dkeys =
            UNION {factors.dcGraph[n].dkeys : n \in 1..Len(factors.dcGraph)}
       /\ \A p \in Perms(Len(factors.dcGraph)) :
            FoldMixtures(EmptyTree,
                         [n \in 1..Len(factors.dcGraph) |->
                            factors.dcGraph[p[n]]]).dkeys = sum.dkeys

\* Two mixture factors over different discrete keys have been folded.
C6_Witness ==
  /\ pc = "sum_gaussian"
  /\ i = 1
  /\ Len(factors.dcGraph) >= 2
  /\ factors.dcGraph[1].dkeys # factors.dcGraph[2].dkeys
  /\ sum.dkeys = {"m1", "m2"}

\* A step of the loop over gaussianGraph(): sum += gaussianFactor.
FoldPlainStep == pc = "sum_gaussian" /\ i' = i + 1

\* C7 as the specification states it: folding a plain factor never changes
\* the discrete keys or the number of leaves of the sum, and every leaf's
\* graph is its previous graph with the factor appended.
C7_FoldPlainNeverChangesLeaves ==
  [][FoldPlainStep =>
       /\ sum'.dkeys = sum.dkeys
       /\ LeafCount(sum') = LeafCount(sum)
       /\ \A a \in Leaves(sum') :
            sum'.leaves[a] = Append(sum.leaves[a], factors.gaussianGraph[i])
    ]_vars

\* C7 amended: folding a plain factor into a sum that is not empty never
\* changes its discrete keys or its number of leaves, and every leaf's graph
\* is its previous graph with the factor appended; folding it into the empty
\* sum gives one leaf, without discrete keys, that holds the factor alone.
C7_FoldPlainBroadcast ==
  [][FoldPlainStep =>
       IF sum.empty
       THEN /\ ~sum'.empty
            /\ sum'.dkeys = {}
            /\ LeafCount(sum') = 1
            /\ \A a \in Leaves(sum') :
                 sum'.leaves[a] = <<factors.gaussianGraph[i]>>
       ELSE /\ ~sum'.empty
            /\ sum'.dkeys = sum.dkeys
            /\ LeafCount(sum') = LeafCount(sum)
            /\ \A a \in Leaves(sum') :
                 sum'.leaves[a] =
                   Append(sum.leaves[a], factors.gaussianGraph[i])
    ]_vars

\* A plain factor has been appended to the leaves of a sum over two
\* discrete keys, behind a factor of a mixture.
C7_Witness ==
  /\ pc = "sum_gaussian"
  /\ i = 2
  /\ sum.dkeys = {"m1", "m2"}
  /\ LeafCount(sum) = 4
  /\ \E a \in Leaves(sum) :
       /\ Len(sum.leaves[a]) >= 2
       /\ sum.leaves[a][Len(sum.leaves[a])] = factors.gaussianGraph[1]

\* C8: sum() throws at the first element of dcGraph() that is no mixture
\* factor, and a throw (from sum() or from the continuous oracle on one
\* leaf) leaves the call without a conditional and without a factor, also
\* when other hypotheses were eliminated before.
C8_FatalAborts ==
  /\ pc = "sum_dc" => \A n \in 1..(i - 1) : IsMixture(factors.dcGraph[n])
  /\ ~AllMixtures(factors) => pc \in {"idle", "sum_dc", "thrown"}
  /\ err = "TypeMismatch" =>
       /\ ~IsMixture(factors.dcGraph[i])
       /\ \A n \in 1..(i - 1) : IsMixture(factors.dcGraph[n])
       /\ sum = FoldMixtures(EmptyTree, SubSeq(factors.dcGraph, 1, i - 1))
  /\ pc = "thrown" => (err # "" /\ ret = NoResult)
  /\ pc # "done" => ret = NoResult
  /\ Eliminated =>
       \A a \in Feasible : ~Singular(sum.leaves[a], ordering)

\* The oracle threw on one leaf after another leaf had been eliminated:
\* nothing is returned.
C8_Witness ==
  /\ pc = "thrown"
  /\ err = "SingularSystem"
  /\ ret = NoResult
  /\ \E a \in Leaves(sum) :
       eliminationResults[a].done /\ eliminationResults[a].first # Null

Writers(v) == {a \in Leaves(sum) : <<a, v>> \in writes}

\* The feasible leaf the tree order visits first.
FirstFeasible == CHOOSE a \in Feasible : \A b \in Feasible : Rank(a) <= Rank(b)

\* The feasible leaves whose separator is not empty.
WithSeparator == {a \in Feasible : GraphKeys(sum.leaves[a]) \ ordering # {}}

\* What the captured variables hold after the map in tree order.
TreeOrderKeysOfEliminated ==
  IF Feasible = {} THEN {} ELSE GraphKeys(sum.leaves[FirstFeasible])

TreeOrderKeysOfSeparator ==
  IF WithSeparator = {} THEN {}
  ELSE LET a == CHOOSE a \in WithSeparator :
                  \A b \in WithSeparator : Rank(a) <= Rank(b)
       IN  GraphKeys(sum.leaves[a]) \ ordering

\* C10 as the specification states it: the leaves share no mutable state,
\* so no two leaves write the same variable and every order of the leaves
\* gives the result of the tree order.
C10_NoSharedState ==
  /\ \A v \in {"keysOfEliminated", "keysOfSeparator"} :
       Cardinality(Writers(v)) <= 1
  /\ Eliminated =>
       /\ ret.first.keys = TreeOrderKeysOfEliminated
       /\ keysOfSeparator = TreeOrderKeysOfSeparator

\* C10 amended: in every order of the leaves, each leaf's pair is what the
\* eliminate lambda gives for that leaf's graph alone; the leaves share
\* keysOfEliminated and keysOfSeparator, which only feasible leaves write
\* and which end as the key sets of some feasible leaf, so that the result
\* is that of the tree order whenever the feasible leaves agree on them.
C10_LeafResultsOrderFree ==
  /\ (op = "EliminateHybrid" /\ pc \in {"eliminate", "done"}) =>
       /\ \A a \in Leaves(sum) :
            eliminationResults[a].done =>
              /\ eliminationResults[a].first =
                   (IF a \in Feasible
                    THEN EliminatePreferCholesky(sum.leaves[a],
                                                 ordering).first
                    ELSE Null)
              /\ eliminationResults[a].second =
                   (IF a \in Feasible
                    THEN EliminatePreferCholesky(sum.leaves[a],
                                                 ordering).second
                    ELSE Null)
       /\ \A v \in {"keysOfEliminated", "keysOfSeparator"} :
            Writers(v) \subseteq Feasible
  /\ Eliminated =>
       /\ keysOfEliminated \in
            {GraphKeys(sum.leaves[a]) : a \in Feasible} \cup {{}}
       /\ keysOfSeparator \in Separators \cup {{}}
       /\ Cardinality(Separators) <= 1 =>
            /\ ret.first.keys = TreeOrderKeysOfEliminated
            /\ ret.second = HybridResidual(factors, TreeOrderKeysOfSeparator,
                                           unzip(sum, eliminationResults).second)

\* Two feasible leaves that agree on their keys were eliminated, the one
\* later in the tree order first, and both wrote keysOfSeparator.
C10_Witness ==
  /\ Eliminated
  /\ Cardinality(Separators) = 1
  /\ Cardinality(Writers("keysOfSeparator")) >= 2
  /\ \E a \in Writers("keysOfEliminated") : a # FirstFeasible
====
